---- MODULE Spec2Model ----
(***************************************************************************)
(* A model of the real-time audio bridge and verdict protocol:             *)
(*   - the codec layer of backend/twilio-server.ts (mu-law table, encoder, *)
(*     the two resamplers),                                                *)
(*   - the telephony bridge of backend/twilio-server.ts (one WebSocket     *)
(*     connection handler per caller),                                     *)
(*   - the local bridge: services/geminiLiveService.ts driven by the       *)
(*     Simulator component.                                                *)
(* The specifications of the module: Spec (one call on either bridge),     *)
(* SpecRestart (several calls on the local bridge), SpecCallers (several  *)
(* callers on the telephony bridge), SpecPlayback (one local call with    *)
(* the output clock advancing) and SpecCodec.                             *)
(***************************************************************************)
EXTENDS Integers, Sequences, FiniteSets, TLC

VARIABLES
    codecOp,      \* which codec function was applied to codecIn ("none" before)
    codecIn,      \* the input frame (a sequence of numbers)
    codecOut,     \* the function's result
    codecBack     \* decodeMulaw applied to the result of encodeMulaw

codecVars == <<codecOp, codecIn, codecOut, codecBack>>

VARIABLES
    program,      \* which program runs: "codec", "server" (telephony), "browser"
    callers,      \* the callers that dial in during the run (a subset of Conns)
    quota         \* how many inputs the environment gives during the run:
                  \* startSession calls, audio chunks, remote messages

\* Telephony bridge, one entry per connection (backend/twilio-server.ts).
VARIABLES
    wsState,        \* the Twilio socket: "none", "open", "closed"
    twPhase,        \* what Twilio has sent: "connected", "started", "stopped"
    telPc,          \* the connection handler: "idle", "connecting", "ready", "failed"
    streamSid,      \* the handler's streamSid ("" until a start event is handled)
    geminiSession,  \* the handler's geminiSession: NULL or a session handle
    gemState,       \* the remote session: "none", "connecting", "open", "closed"
    arrivals,       \* history: the media events Twilio sent, in order
    forwarded,      \* history: the sendRealtimeInput calls, in order
    closeCalls,     \* history: how many times geminiSession.close() was called
    wsOut,          \* history: the frames ws.send was given, in order
    gemMsgs,        \* history: how many messages the remote session emitted
    toolCalls,      \* history: how many of them carried a toolCall
    gemAudio,       \* history: the inline audio payloads they carried, in order
    crashed         \* the server process died of an uncaught exception

telVars == <<wsState, twPhase, telPc, streamSid, geminiSession, gemState,
             arrivals, forwarded, closeCalls, wsOut, gemMsgs, toolCalls,
             gemAudio, crashed>>

envVars == <<program, callers, quota>>

\* Local bridge: the fields of GeminiLiveService (services/geminiLiveService.ts).
VARIABLES
    session,            \* this.session: NoId or the session of a startSession call
    inputAudioContext,  \* this.inputAudioContext: NoId or a context
    processor,          \* this.processor (and its this.inputSource): NoId or a node
    stream,             \* this.stream: NoId or a microphone stream
    isActive            \* this.isActive

svcVars == <<session, inputAudioContext, processor, stream, isActive>>

\* Local bridge: one entry per startSession call (its locals, and the objects
\* it creates: stream k, context k, session k, processor k).
VARIABLES
    callPc,         \* "unused", "getUserMedia", "resume", "connecting", "done"
    sess,           \* remote session k: "none", "connecting", "open", "closing",
                    \* "errored", "closed"
    promise,        \* sessionPromise of call k: "none", "pending", "resolved", "rejected"
    thenQueue,      \* reactions registered on sessionPromise while it is pending
    procCtx,        \* the context processor k was created on (NoId: no processor k)
    procConnected,  \* processor k is connected (delivers onaudioprocess events)
    capturedLogs,   \* the logs the addCallLog closure of call k has captured
    decoding        \* onmessage handlers suspended in `await decodeAudioData`

callVars == <<callPc, sess, promise, thenQueue, procCtx, procConnected,
              capturedLogs, decoding>>

\* Local bridge: what the collaborators have seen (histories).
VARIABLES
    sessCloseCalls, \* how many times session k's close() was called
    trackStops,     \* how many times the tracks of stream k were stopped
    disconnects,    \* how many times source/processor k were disconnected
    ctxCloses,      \* how many times context k was closed
    micArrivals,    \* the buffers delivered to processor k's onaudioprocess
    submitted,      \* the sendRealtimeInput calls on session k
    acks,           \* the sendToolResponse calls on session k
    delivered,      \* the onToolCall calls made for session k
    played,         \* the onAudioData calls: the messages whose audio was handed over
    emitted         \* the messages session k emitted, in order

histVars == <<sessCloseCalls, trackStops, disconnects, ctxCloses, micArrivals,
              submitted, acks, delivered, played, emitted>>

\* Local bridge: the state of the Simulator component and of the Dashboard.
VARIABLES
    isConnected,
    status,         \* "idle", "connected", "assessing", "finished"
    assessment,     \* NoAssessment or the arguments of a tool call
    error,          \* NULL or a message
    timers,         \* pending setTimeout(handleHangUp, 4000) timers
    logs            \* the Dashboard's call logs, newest first

uiVars == <<isConnected, status, assessment, error, timers, logs>>

\* Local bridge: which of startSession / stopSession was invoked last
\* ("none" before the first call).
VARIABLES lastOp

\* Local bridge: the Simulator's playback scheduling, its pending timers and
\* the Dashboard's statistics.
VARIABLES
    nextStartTimeRef, \* nextStartTimeRef.current: where the next buffer starts
    currentTime,      \* audioContextRef.current.currentTime, in ticks
    scheduled,        \* history: the source.start calls, and the cursor resets
    timerOwners,      \* the call whose onToolCall set each pending timer, oldest first
    stats             \* the Dashboard's stats

simVars == <<nextStartTimeRef, currentTime, scheduled, timerOwners, stats>>

localVars == <<svcVars, callVars, histVars, uiVars, lastOp, simVars>>

vars == <<codecVars, envVars, telVars, localVars>>

(***************************************************************************)
(* Bounds of the model.                                                    *)
(***************************************************************************)
MaxFrameLen == 4

\* Media events Twilio sends, all connections together.
MaxMedia == 3

\* Messages the remote sessions emit, all sessions together.
MaxRemoteMsgs == 2

\* Slots for startSession calls (clicks on "Simulate Incoming Call"); a run
\* uses quota.starts of them.
MaxStarts == 2

\* The output context's clock runs from 0 to MaxClock ticks.
MaxClock == 3

(***************************************************************************)
(* Codec layer: backend/twilio-server.ts lines 23-86.                      *)
(***************************************************************************)
BIAS == 132                      \* 0x84

Int16Min == 0 - 32768

Int16Max == 32767

Bytes == 0 .. 255

Int16 == Int16Min .. Int16Max

\* x << n and x >> n on non-negative 32-bit values that do not overflow.
Shl(x, n) == x * (2 ^ n)

Shr(x, n) == x \div (2 ^ n)

\* What a store into an Int16Array keeps of a number (ToInt16).
ToInt16(v) == ((v + 32768) % 65536) - 32768

\* What a store into a Buffer (Uint8Array) keeps of a number (ToUint8).
ToUint8(v) == v % 256

\* Mutant of MuLawSample: the mantissa shifted by 4 instead of 3.
MuLawSample_WideMantissa(i) ==
    LET sign     == IF (i \div 128) % 2 = 1 THEN 0 - 1 ELSE 1
        exponent == (i \div 16) % 8
        mantissa == i % 16
        sample   == Shl(Shl(mantissa, 4) + BIAS, exponent) - BIAS
    IN  sign * sample

\* The body of the table-building loop for index i, before the store.
MuLawSample(i) ==
    LET sign     == IF (i \div 128) % 2 = 1 THEN 0 - 1 ELSE 1
        exponent == (i \div 16) % 8
        mantissa == i % 16
        sample   == Shl(Shl(mantissa, 3) + BIAS, exponent) - BIAS
    IN  sign * sample

MU_LAW_TABLE == [i \in Bytes |-> ToInt16(MuLawSample(i))]

decodeMulaw(data) == [i \in 1 .. Len(data) |-> MU_LAW_TABLE[data[i]]]

\* The exponent search loop of encodeMulaw: the first exp in 0..7 with
\* sample < (1 << (exp + 3)), else the initial value 7.
RECURSIVE ExponentFrom(_, _)
ExponentFrom(sample, exp) ==
    IF exp >= 8 THEN 7
    ELSE IF sample < Shl(1, exp + 3) THEN exp
    ELSE ExponentFrom(sample, exp + 1)

\* One iteration of encodeMulaw's loop: the byte stored for one sample.
EncodeSample(s) ==
    LET clampLo  == IF s < Int16Min THEN Int16Min ELSE s
        clamped  == IF clampLo > Int16Max THEN Int16Max ELSE clampLo
        sign     == IF clamped < 0 THEN 128 ELSE 0
        mag      == IF clamped < 0 THEN 0 - clamped ELSE clamped
        sample   == mag + BIAS
        exponent == ExponentFrom(sample, 0)
        mantissa == Shr(sample, exponent + 3) % 16
        \* ~(sign | (exponent << 4) | mantissa): the fields are disjoint bits,
        \* and ~v is -v - 1.
    IN  ToUint8(0 - (sign + Shl(exponent, 4) + mantissa) - 1)

encodeMulaw(pcmData) == [i \in 1 .. Len(pcmData) |-> EncodeSample(pcmData[i])]

\* Mutant of resample8kTo16k: linear interpolation, the odd samples are the
\* mean of their two neighbours.
resample8kTo16k_Interp(input) ==
    [k \in 1 .. (Len(input) * 2) |->
        LET i == ((k - 1) \div 2) + 1
        IN  IF k % 2 = 1 \/ i = Len(input)
            THEN input[i]
            ELSE (input[i] + input[i + 1]) \div 2]

\* new Int16Array(input.length * 2); output[2i] = output[2i+1] = input[i].
resample8kTo16k(input) ==
    [k \in 1 .. (Len(input) * 2) |-> input[((k - 1) \div 2) + 1]]

\* Mutant of resample24kTo8k: the length rounded up instead of down.
resample24kTo8k_Ceil(input) ==
    [k \in 1 .. ((Len(input) + 2) \div 3) |-> input[((k - 1) * 3) + 1]]

\* new Int16Array(Math.floor(input.length / 3)); output[i] = input[3i].
resample24kTo8k(input) ==
    [k \in 1 .. (Len(input) \div 3) |-> input[((k - 1) * 3) + 1]]

(***************************************************************************)
(* Telephony bridge: backend/twilio-server.ts lines 106-213.  One handler  *)
(* instance per Twilio connection; its locals are streamSid and            *)
(* geminiSession.                                                          *)
(***************************************************************************)
NULL == "null"

Conns == {"A", "B"}

\* The stream identifier Twilio assigns to connection c.
SidOf(c) == IF c = "A" THEN "MZ-A" ELSE "MZ-B"

\* The compressed payloads of media events.
MediaPayloads == {<<0>>, <<255, 127>>}

\* The 24 kHz PCM payloads of remote audio messages.
RemoteAudio == {<<0, 1, 300, 0 - 1000>>, <<1, 0>>}

RECURSIVE SumOver(_, _)
SumOver(f, S) ==
    IF S = {} THEN 0
    ELSE LET x == CHOOSE y \in S : TRUE
         IN  f[x] + SumOver(f, S \ {x})

TotalMedia == SumOver([c \in Conns |-> Len(arrivals[c])], Conns)

TotalRemoteMsgs == SumOver(gemMsgs, Conns)

\* State of the telephony variables before any connection (and throughout
\* the runs of the other programs).
TelIdle ==
    /\ wsState = [c \in Conns |-> "none"]
    /\ twPhase = [c \in Conns |-> "connected"]
    /\ telPc = [c \in Conns |-> "idle"]
    /\ streamSid = [c \in Conns |-> ""]
    /\ geminiSession = [c \in Conns |-> NULL]
    /\ gemState = [c \in Conns |-> "none"]
    /\ arrivals = [c \in Conns |-> << >>]
    /\ forwarded = [c \in Conns |-> << >>]
    /\ closeCalls = [c \in Conns |-> 0]
    /\ wsOut = [c \in Conns |-> << >>]
    /\ gemMsgs = [c \in Conns |-> 0]
    /\ toolCalls = [c \in Conns |-> 0]
    /\ gemAudio = [c \in Conns |-> << >>]
    /\ crashed = FALSE

\* ws.on("message", ...) and ws.on("close", ...) are registered only after
\* `await sessionPromise` (lines 164-172, 209): an event emitted earlier finds
\* no listener and is lost.
HandlersInstalled(c) == telPc[c] = "ready"

\* Mutant of CloseGemini: one session handle shared by all the connections
\* (geminiSession declared outside the connection handler), so a close closes
\* every open session.
CloseGemini_All(c) ==
    /\ closeCalls' = [d \in Conns |->
                         IF geminiSession[d] /= NULL THEN closeCalls[d] + 1
                         ELSE closeCalls[d]]
    /\ gemState' = [d \in Conns |->
                       IF geminiSession[d] /= NULL THEN "closed" ELSE gemState[d]]

\* geminiSession?.close(): lines 205 and 211.
CloseGemini(c) ==
    IF geminiSession[c] /= NULL
    THEN /\ closeCalls' = [closeCalls EXCEPT ![c] = @ + 1]
         /\ gemState' = [gemState EXCEPT ![c] = "closed"]
    ELSE UNCHANGED <<closeCalls, gemState>>

\* The server process runs until an exception escapes a handler: the code
\* installs no uncaughtException handler and no try/catch around the socket's
\* listeners (lines 172-212).
ServerRunning == program = "server" /\ ~crashed

\* wss.on("connection"): lines 106-162, up to `await sessionPromise`.
TwilioConnect(c) ==
    /\ ServerRunning
    /\ c \in callers
    /\ wsState[c] = "none"
    /\ wsState' = [wsState EXCEPT ![c] = "open"]
    /\ telPc' = [telPc EXCEPT ![c] = "connecting"]
    /\ gemState' = [gemState EXCEPT ![c] = "connecting"]
    /\ UNCHANGED <<twPhase, streamSid, geminiSession, arrivals, forwarded,
                   closeCalls, wsOut, gemMsgs, toolCalls, crashed,
                   gemAudio, envVars, codecVars, localVars>>

\* The handshake resolves: onopen (line 134), then line 164 and the
\* registration of the socket's handlers (lines 172, 209).
GeminiHandshakeOk(c) ==
    /\ ServerRunning
    /\ telPc[c] = "connecting"
    /\ gemState[c] = "connecting"
    /\ gemState' = [gemState EXCEPT ![c] = "open"]
    /\ geminiSession' = [geminiSession EXCEPT ![c] = c]
    /\ telPc' = [telPc EXCEPT ![c] = "ready"]
    /\ UNCHANGED <<wsState, twPhase, streamSid, arrivals, forwarded,
                   closeCalls, wsOut, gemMsgs, toolCalls, crashed,
                   gemAudio, envVars, codecVars, localVars>>

\* The handshake rejects: the catch of lines 166-170 (ws.close(); return).
GeminiHandshakeFail(c) ==
    /\ ServerRunning
    /\ telPc[c] = "connecting"
    /\ gemState[c] = "connecting"
    /\ gemState' = [gemState EXCEPT ![c] = "closed"]
    /\ wsState' = [wsState EXCEPT ![c] = "closed"]
    /\ telPc' = [telPc EXCEPT ![c] = "failed"]
    /\ UNCHANGED <<twPhase, streamSid, geminiSession, arrivals, forwarded,
                   closeCalls, wsOut, gemMsgs, toolCalls, crashed,
                   gemAudio, envVars, codecVars, localVars>>

\* A "start" message: lines 173-178.
TwilioStart(c) ==
    /\ ServerRunning
    /\ wsState[c] = "open"
    /\ twPhase[c] = "connected"
    /\ twPhase' = [twPhase EXCEPT ![c] = "started"]
    /\ streamSid' = IF HandlersInstalled(c)
                    THEN [streamSid EXCEPT ![c] = SidOf(c)]
                    ELSE streamSid
    /\ UNCHANGED <<wsState, telPc, geminiSession, gemState, arrivals, forwarded,
                   closeCalls, wsOut, gemMsgs, toolCalls, crashed,
                   gemAudio, envVars, codecVars, localVars>>

\* Mutant of InboundFrame: the decoded 8 kHz samples are submitted as they
\* are, without the upsampling.
InboundFrame_NoUpsample(payload) == decodeMulaw(payload)

\* The frame a media event submits: lines 181-200.
InboundFrame(payload) == resample8kTo16k(decodeMulaw(payload))

\* A "media" message: lines 173, 179-202.  Twilio sends media between start
\* and stop; the handler takes a media event after the stop event as well.
TwilioMedia(c, payload) ==
    /\ ServerRunning
    /\ wsState[c] = "open"
    /\ twPhase[c] \in {"started", "stopped"}
    /\ TotalMedia < quota.media
    /\ LET accepted == HandlersInstalled(c) /\ geminiSession[c] /= NULL
           n        == Len(arrivals[c]) + 1
       IN  /\ arrivals' = [arrivals EXCEPT
                  ![c] = Append(@, [payload |-> payload, accepted |-> accepted,
                                    handle |-> geminiSession[c]])]
           /\ forwarded' = IF accepted
                           THEN [forwarded EXCEPT
                                    ![c] = Append(@, [seq |-> n,
                                                      data |-> InboundFrame(payload),
                                                      mimeType |-> "audio/pcm;rate=16000",
                                                      open |-> gemState[c] = "open",
                                                      closedBefore |-> closeCalls[c] > 0])]
                           ELSE forwarded
    /\ UNCHANGED <<wsState, twPhase, telPc, streamSid, geminiSession, gemState,
                   closeCalls, wsOut, gemMsgs, toolCalls, crashed,
                   gemAudio, envVars, codecVars, localVars>>

\* A "stop" message: lines 173, 203-206.
TwilioStop(c) ==
    /\ ServerRunning
    /\ wsState[c] = "open"
    /\ twPhase[c] = "started"
    /\ twPhase' = [twPhase EXCEPT ![c] = "stopped"]
    /\ IF HandlersInstalled(c)
       THEN CloseGemini(c)
       ELSE UNCHANGED <<closeCalls, gemState>>
    /\ UNCHANGED <<wsState, telPc, streamSid, geminiSession, arrivals, forwarded,
                   wsOut, gemMsgs, toolCalls, crashed,
                   gemAudio, envVars, codecVars, localVars>>

\* The socket closes (Twilio hangs up): ws.on("close"), lines 209-212.
TwilioDisconnect(c) ==
    /\ ServerRunning
    /\ wsState[c] = "open"
    /\ wsState' = [wsState EXCEPT ![c] = "closed"]
    /\ IF HandlersInstalled(c)
       THEN CloseGemini(c)
       ELSE UNCHANGED <<closeCalls, gemState>>
    /\ UNCHANGED <<twPhase, telPc, streamSid, geminiSession, arrivals, forwarded,
                   wsOut, gemMsgs, toolCalls, crashed,
                   gemAudio, envVars, codecVars, localVars>>

\* A message with another event ("connected", "mark", "dtmf"): lines 172-207,
\* no branch of the handler takes it.
TwilioOther(c) ==
    /\ ServerRunning
    /\ wsState[c] = "open"
    /\ UNCHANGED vars

\* The malformed envelopes: text that is not JSON, a start event without its
\* start object, a media event without its media object.
MalformedKinds == {"not-json", "start-without-start", "media-without-media"}

\* Whether the message handler throws on a malformed envelope: JSON.parse
\* (line 173) throws a SyntaxError, msg.start.streamSid (line 176) a
\* TypeError, and msg.media.payload (line 181) a TypeError once geminiSession
\* is set (line 180), which it is whenever the handler is installed.
HandlerThrows(c, kind) ==
    \/ kind = "not-json"
    \/ kind = "start-without-start"
    \/ kind = "media-without-media" /\ geminiSession[c] /= NULL

\* A malformed message on the socket: lines 172-202.  Nothing catches what the
\* listener throws, so the exception ends the process.
TwilioMalformed(c, kind) ==
    /\ ServerRunning
    /\ wsState[c] = "open"
    /\ crashed' = (HandlersInstalled(c) /\ HandlerThrows(c, kind))
    /\ UNCHANGED <<wsState, twPhase, telPc, streamSid, geminiSession, gemState,
                   arrivals, forwarded, closeCalls, wsOut, gemMsgs, toolCalls,
                   gemAudio, envVars, codecVars, localVars>>

\* Mutant of OutboundFrame: the 24 kHz samples are encoded without the
\* decimation.
OutboundFrame_NoDecimate(c, pcm24k) ==
    [event |-> "media",
     streamSid |-> streamSid[c],
     payload |-> encodeMulaw(pcm24k),
     wsOpen |-> wsState[c] = "open"]

\* The envelope of an outbound media frame: lines 139-148.
OutboundFrame(c, pcm24k) ==
    [event |-> "media",
     streamSid |-> streamSid[c],
     payload |-> encodeMulaw(resample24kTo8k(pcm24k)),
     wsOpen |-> wsState[c] = "open"]

\* No inline audio in a remote message (undefined, or the empty string: both
\* fail `if (audioData)`).
NoAudio == << >>

\* onmessage of the remote session: lines 135-158.  audio is NoAudio or a 24
\* kHz payload; a tool call is only logged.
GeminiMessage(c, audio, toolCall) ==
    /\ ServerRunning
    /\ gemState[c] = "open"
    /\ TotalRemoteMsgs < quota.msgs
    /\ audio /= NoAudio \/ toolCall
    /\ gemMsgs' = [gemMsgs EXCEPT ![c] = @ + 1]
    /\ toolCalls' = IF toolCall THEN [toolCalls EXCEPT ![c] = @ + 1] ELSE toolCalls
    /\ gemAudio' = IF audio /= NoAudio
                   THEN [gemAudio EXCEPT ![c] = Append(@, audio)]
                   ELSE gemAudio
    /\ wsOut' = IF audio /= NoAudio
                THEN [wsOut EXCEPT ![c] = Append(@, OutboundFrame(c, audio))]
                ELSE wsOut
    /\ UNCHANGED <<wsState, twPhase, telPc, streamSid, geminiSession, gemState,
                   arrivals, forwarded, closeCalls, crashed,
                   envVars, codecVars, localVars>>

\* onclose / onerror of the remote session: lines 159-160 (a log line each).
GeminiClosed(c) ==
    /\ ServerRunning
    /\ gemState[c] = "open"
    /\ gemState' = [gemState EXCEPT ![c] = "closed"]
    /\ UNCHANGED <<wsState, twPhase, telPc, streamSid, geminiSession,
                   arrivals, forwarded, closeCalls, wsOut, gemMsgs, toolCalls, crashed,
                   gemAudio, envVars, codecVars, localVars>>

TelNext ==
    \E c \in Conns :
        \/ TwilioConnect(c)
        \/ GeminiHandshakeOk(c)
        \/ GeminiHandshakeFail(c)
        \/ TwilioStart(c)
        \/ \E payload \in MediaPayloads : TwilioMedia(c, payload)
        \/ TwilioStop(c)
        \/ TwilioDisconnect(c)
        \/ \E audio \in RemoteAudio \cup {NoAudio}, toolCall \in BOOLEAN :
               GeminiMessage(c, audio, toolCall)
        \/ GeminiClosed(c)
        \/ \E kind \in MalformedKinds : TwilioMalformed(c, kind)
        \/ TwilioOther(c)

(***************************************************************************)
(* Local bridge: services/geminiLiveService.ts (GeminiLiveService, one     *)
(* instance) driven by the Simulator component.  Call k of startSession    *)
(* acquires stream k, creates context k, connects session k and, in its    *)
(* onopen, creates source/processor k.                                     *)
(***************************************************************************)
NoId == 0

Calls == 1 .. MaxStarts

\* The arguments of a report_outcome call; a field the remote session left out
\* reads as undefined.
ScamArgs == [verdict |-> "scam", reason |-> "IRS gift-card demand", confidence |-> 98]

SafeArgs == [verdict |-> "safe", reason |-> "appointment reminder", confidence |-> 95]

NoVerdictArgs == [verdict |-> "undefined", reason |-> "IRS gift-card demand", confidence |-> 98]

NoAssessment == [verdict |-> "null", reason |-> "null", confidence |-> 0]

ReportOutcome(args) == [name |-> "report_outcome", args |-> args]

OtherCall == [name |-> "other_function", args |-> NoAssessment]

\* The messages the remote session emits: inline audio or not, and the
\* functionCalls of its toolCall (the empty list: no toolCall).
RemoteMessages ==
    { [audio |-> TRUE,  calls |-> << >>],
      [audio |-> TRUE,  calls |-> <<ReportOutcome(ScamArgs)>>],
      [audio |-> FALSE, calls |-> <<ReportOutcome(ScamArgs)>>],
      [audio |-> FALSE, calls |-> <<ReportOutcome(SafeArgs)>>],
      [audio |-> FALSE, calls |-> <<ReportOutcome(NoVerdictArgs)>>],
      [audio |-> FALSE, calls |-> <<OtherCall>>],
      [audio |-> FALSE, calls |-> <<ReportOutcome(ScamArgs), ReportOutcome(SafeArgs)>>] }

\* MOCK_INITIAL_LOGS of Dashboard.tsx.
MOCK_INITIAL_LOGS ==
    << [status |-> "SCAM_DETECTED", summary |-> "mock 1", confidenceScore |-> 98],
       [status |-> "LEGITIMATE", summary |-> "mock 2", confidenceScore |-> 95],
       [status |-> "SCAM_DETECTED", summary |-> "mock 3", confidenceScore |-> 99] >>

\* The Dashboard's initial stats: Dashboard.tsx lines 18-23.
InitialStats ==
    [totalCalls |-> 142, scamsBlocked |-> 89, callsForwarded |-> 53,
     avgThreatLevel |-> 62]

\* The durations, in ticks, of the buffers decodeAudioData produces.
BufferDurations == {1, 2}

TotalMic == SumOver([k \in Calls |-> Len(micArrivals[k])], Calls)

TotalLocalMsgs == SumOver([k \in Calls |-> Len(emitted[k])], Calls)

\* State of the local variables after construction (and throughout the runs
\* of the other programs).
LocalIdle ==
    /\ session = NoId
    /\ inputAudioContext = NoId
    /\ processor = NoId
    /\ stream = NoId
    /\ isActive = FALSE
    /\ callPc = [k \in Calls |-> "unused"]
    /\ sess = [k \in Calls |-> "none"]
    /\ promise = [k \in Calls |-> "none"]
    /\ thenQueue = [k \in Calls |-> << >>]
    /\ procCtx = [k \in Calls |-> NoId]
    /\ procConnected = [k \in Calls |-> FALSE]
    /\ capturedLogs = [k \in Calls |-> << >>]
    /\ decoding = {}
    /\ sessCloseCalls = [k \in Calls |-> 0]
    /\ trackStops = [k \in Calls |-> 0]
    /\ disconnects = [k \in Calls |-> 0]
    /\ ctxCloses = [k \in Calls |-> 0]
    /\ micArrivals = [k \in Calls |-> << >>]
    /\ submitted = [k \in Calls |-> << >>]
    /\ acks = [k \in Calls |-> << >>]
    /\ delivered = [k \in Calls |-> << >>]
    /\ played = << >>
    /\ emitted = [k \in Calls |-> << >>]
    /\ isConnected = FALSE
    /\ status = "idle"
    /\ assessment = NoAssessment
    /\ error = NULL
    /\ timers = 0
    /\ logs = MOCK_INITIAL_LOGS
    /\ lastOp = "none"
    /\ nextStartTimeRef = 0
    /\ currentTime = 0
    /\ scheduled = << >>
    /\ timerOwners = << >>
    /\ stats = InitialStats

\* cleanup(): geminiLiveService.ts lines 169-186.  this.processor and
\* this.inputSource are not reset.
Cleanup ==
    /\ isActive' = FALSE
    /\ trackStops' = IF stream /= NoId
                     THEN [trackStops EXCEPT ![stream] = @ + 1]
                     ELSE trackStops
    /\ stream' = NoId
    /\ disconnects' = IF processor /= NoId
                      THEN [disconnects EXCEPT ![processor] = @ + 1]
                      ELSE disconnects
    /\ procConnected' = IF processor /= NoId
                        THEN [procConnected EXCEPT ![processor] = FALSE]
                        ELSE procConnected
    /\ ctxCloses' = IF inputAudioContext /= NoId
                    THEN [ctxCloses EXCEPT ![inputAudioContext] = @ + 1]
                    ELSE ctxCloses
    /\ inputAudioContext' = NoId

\* The variables cleanup() leaves alone.
NotCleaned == <<session, processor, procCtx>>

\* The variables cleanup() writes.
Cleaned == <<isActive, stream, inputAudioContext, trackStops, disconnects,
             procConnected, ctxCloses>>

\* Mutant of CatchBlock: the catch reports the error and releases nothing.
CatchBlock_NoCleanup(k, message) ==
    /\ error' = message
    /\ isConnected' = FALSE
    /\ status' = "idle"
    /\ UNCHANGED Cleaned
    /\ callPc' = [callPc EXCEPT ![k] = "done"]

\* The catch of startSession (lines 149-153): callbacks.onError (part_000
\* lines 73-77), then cleanup().
CatchBlock(k, message) ==
    /\ error' = message
    /\ isConnected' = FALSE
    /\ status' = "idle"
    /\ Cleanup
    /\ callPc' = [callPc EXCEPT ![k] = "done"]

\* live.connect resolves sessionPromise right after it has called onopen.
\* Between the two the model lets the audio device deliver buffers (so that
\* the deferral through sessionPromise.then is exercised), and nothing else:
\* no click, no timer and no event of the remote session falls in between.
AwaitingResolve == \E k \in Calls : sess[k] = "open" /\ promise[k] = "pending"

\* handleStartCall (part_000 lines 55-68) and startSession up to its first
\* await (lines 31-35).  The output context of initializeAudio is not
\* modelled.  The button is rendered while !isConnected.
HandleStartCall(k) ==
    /\ program = "browser"
    /\ ~AwaitingResolve
    /\ ~isConnected
    /\ callPc[k] = "unused"
    /\ k <= quota.starts
    /\ \A j \in Calls : j < k => callPc[j] /= "unused"
    /\ error' = NULL
    /\ assessment' = NoAssessment
    /\ status' = "connected"
    /\ capturedLogs' = [capturedLogs EXCEPT ![k] = logs]
    /\ callPc' = [callPc EXCEPT ![k] = IF isActive THEN "done" ELSE "getUserMedia"]
    /\ lastOp' = "start"
    /\ UNCHANGED <<svcVars, sess, promise, thenQueue, procCtx, procConnected,
                   decoding, histVars, isConnected, timers, logs,
                   simVars, codecVars, envVars, telVars>>

\* live.connect is called and startSession awaits sessionPromise: lines 47-147.
StartConnect(k) ==
    /\ callPc' = [callPc EXCEPT ![k] = "connecting"]
    /\ sess' = [sess EXCEPT ![k] = "connecting"]
    /\ promise' = [promise EXCEPT ![k] = "pending"]

\* getUserMedia resolves: lines 35-44.  The new context is either running or
\* suspended (then startSession awaits resume()).
GetUserMediaResolve(k, suspended) ==
    /\ program = "browser"
    /\ ~AwaitingResolve
    /\ callPc[k] = "getUserMedia"
    /\ stream' = k
    /\ inputAudioContext' = k
    /\ IF suspended
       THEN /\ callPc' = [callPc EXCEPT ![k] = "resume"]
            /\ UNCHANGED <<sess, promise>>
       ELSE StartConnect(k)
    /\ UNCHANGED <<session, processor, isActive, thenQueue, procCtx, procConnected,
                   capturedLogs, decoding, histVars, uiVars,
                   lastOp, simVars, codecVars, envVars, telVars>>

\* getUserMedia rejects (permission denied): the catch.
GetUserMediaReject(k) ==
    /\ program = "browser"
    /\ ~AwaitingResolve
    /\ callPc[k] = "getUserMedia"
    /\ CatchBlock(k, "Permission denied")
    /\ UNCHANGED <<NotCleaned, sess, promise, thenQueue, capturedLogs, decoding,
                   sessCloseCalls, micArrivals, submitted, acks, delivered, played,
                   emitted, assessment, timers, logs,
                   lastOp, simVars, codecVars, envVars, telVars>>

\* resume() settles: lines 43-47.  It rejects when context k was closed
\* meanwhile, and line 47 throws when this.inputAudioContext is null: both end
\* in the catch.
ResumeSettle(k) ==
    /\ program = "browser"
    /\ ~AwaitingResolve
    /\ callPc[k] = "resume"
    /\ IF ctxCloses[k] > 0 \/ inputAudioContext = NoId
       THEN /\ CatchBlock(k, "Cannot read properties of null")
            /\ UNCHANGED <<sess, promise>>
       ELSE /\ StartConnect(k)
            /\ UNCHANGED <<isActive, stream, inputAudioContext, trackStops,
                           disconnects, procConnected, ctxCloses,
                           error, isConnected, status>>
    /\ UNCHANGED <<NotCleaned, thenQueue, capturedLogs, decoding,
                   sessCloseCalls, micArrivals, submitted, acks, delivered, played,
                   emitted, assessment, timers, logs,
                   lastOp, simVars, codecVars, envVars, telVars>>

\* onopen of session k: lines 75-99, with onConnect (part_000 line 68).
RemoteOpen(k) ==
    /\ program = "browser"
    /\ ~AwaitingResolve
    /\ sess[k] = "connecting"
    /\ sess' = [sess EXCEPT ![k] = "open"]
    /\ isActive' = TRUE
    /\ isConnected' = TRUE
    /\ IF inputAudioContext = NoId \/ stream = NoId
       THEN UNCHANGED <<processor, procCtx, procConnected>>
       ELSE /\ processor' = k
            /\ procCtx' = [procCtx EXCEPT ![k] = inputAudioContext]
            /\ procConnected' = [procConnected EXCEPT ![k] = TRUE]
    /\ UNCHANGED <<session, inputAudioContext, stream, callPc, promise, thenQueue,
                   capturedLogs, decoding, histVars, status, assessment, error,
                   timers, logs, lastOp, simVars, codecVars, envVars, telVars>>

\* Mutant of PromiseSettled: the callback runs at once whatever the state of
\* the promise (session.sendRealtimeInput called without sessionPromise.then).
PromiseSettled_Always(k) == TRUE

\* sessionPromise.then(cb): cb runs at once (as a microtask) when the promise
\* is resolved, and is kept for later while it is pending (lines 92, 121).
PromiseSettled(k) == promise[k] = "resolved"

\* Mutant of ReactionOrder: the reactions run last registered first.
ReactionOrder_Reversed(q) == [i \in 1 .. Len(q) |-> q[Len(q) + 1 - i]]

\* The reactions of a promise run in the order they were registered.
ReactionOrder(q) == q

\* session.sendRealtimeInput({ media: pcmBlob }): line 93.
SubmitRecord(k, n) ==
    [seq |-> n, settled |-> promise[k] = "resolved", open |-> sess[k] = "open",
     deferred |-> FALSE]

\* Mutant of RunAcks: the tool response leaves out the identifier of the call.
RunAcks_NoId(k, q) ==
    LET ack == SelectSeq(ReactionOrder(q), LAMBDA r : r.kind = "ack")
    IN  [i \in 1 .. Len(ack) |-> [id |-> << >>, name |-> ack[i].name]]

\* What running the reactions q of sessionPromise k adds to the calls made on
\* session k, after the promise resolved.
RunAudio(k, q) ==
    LET audio == SelectSeq(ReactionOrder(q), LAMBDA r : r.kind = "audio")
    IN  [i \in 1 .. Len(audio) |->
            [seq |-> audio[i].seq, settled |-> TRUE, open |-> sess[k] = "open",
             deferred |-> TRUE]]

RunAcks(k, q) ==
    LET ack == SelectSeq(ReactionOrder(q), LAMBDA r : r.kind = "ack")
    IN  [i \in 1 .. Len(ack) |-> [id |-> ack[i].id, name |-> ack[i].name]]

\* sessionPromise resolves: `this.session = await sessionPromise` (line 147)
\* continues and the reactions registered meanwhile run, in one microtask
\* checkpoint.
HandshakeResolve(k) ==
    /\ program = "browser"
    /\ promise[k] = "pending"
    /\ sess[k] = "open"
    /\ promise' = [promise EXCEPT ![k] = "resolved"]
    /\ session' = k
    /\ callPc' = [callPc EXCEPT ![k] = "done"]
    /\ submitted' = [submitted EXCEPT ![k] = @ \o RunAudio(k, thenQueue[k])]
    /\ acks' = [acks EXCEPT ![k] = @ \o RunAcks(k, thenQueue[k])]
    /\ thenQueue' = [thenQueue EXCEPT ![k] = << >>]
    /\ UNCHANGED <<inputAudioContext, processor, stream, isActive, sess, procCtx,
                   procConnected, capturedLogs, decoding, sessCloseCalls,
                   trackStops, disconnects, ctxCloses, micArrivals, delivered,
                   played, emitted, uiVars, lastOp, simVars, codecVars, envVars, telVars>>

\* sessionPromise rejects (the handshake fails): the catch.
HandshakeReject(k) ==
    /\ program = "browser"
    /\ ~AwaitingResolve
    /\ promise[k] = "pending"
    /\ sess[k] = "connecting"
    /\ sess' = [sess EXCEPT ![k] = "closed"]
    /\ promise' = [promise EXCEPT ![k] = "rejected"]
    /\ CatchBlock(k, "Failed to connect")
    /\ UNCHANGED <<NotCleaned, thenQueue, capturedLogs, decoding,
                   sessCloseCalls, micArrivals, submitted, acks, delivered, played,
                   emitted, assessment, timers, logs,
                   lastOp, simVars, codecVars, envVars, telVars>>

\* processor k's onaudioprocess: lines 86-95.  The node delivers buffers while
\* it is connected and its context is not closed.
AudioProcess(k) ==
    /\ program = "browser"
    /\ procCtx[k] /= NoId
    /\ procConnected[k]
    /\ ctxCloses[procCtx[k]] = 0
    /\ TotalMic < quota.media
    /\ LET n == Len(micArrivals[k]) + 1
       IN  /\ micArrivals' = [micArrivals EXCEPT ![k] = Append(@, isActive)]
           /\ IF ~isActive
              THEN UNCHANGED <<submitted, thenQueue>>
              ELSE IF PromiseSettled(k)
              THEN /\ submitted' = [submitted EXCEPT ![k] = Append(@, SubmitRecord(k, n))]
                   /\ UNCHANGED thenQueue
              ELSE /\ thenQueue' = [thenQueue EXCEPT
                          ![k] = Append(@, [kind |-> "audio", seq |-> n,
                                            id |-> << >>, name |-> ""])]
                   /\ UNCHANGED submitted
    /\ UNCHANGED <<svcVars, callPc, sess, promise, procCtx, procConnected,
                   capturedLogs, decoding, sessCloseCalls, trackStops, disconnects,
                   ctxCloses, acks, delivered, played, emitted, uiVars,
                   lastOp, simVars, codecVars, envVars, telVars>>

\* The CallLog onToolCall builds: part_000 lines 98-106.
LogOf(args) ==
    [status |-> IF args.verdict = "scam" THEN "SCAM_DETECTED" ELSE "LEGITIMATE",
     summary |-> args.reason,
     confidenceScore |-> args.confidence]

\* The setStats updater of addCallLog: Dashboard.tsx lines 32-37.
addCallLogStats(prev, log) ==
    [totalCalls |-> prev.totalCalls + 1,
     scamsBlocked |-> IF log.status = "SCAM_DETECTED"
                      THEN prev.scamsBlocked + 1 ELSE prev.scamsBlocked,
     callsForwarded |-> IF log.status = "LEGITIMATE"
                        THEN prev.callsForwarded + 1 ELSE prev.callsForwarded,
     avgThreatLevel |-> prev.avgThreatLevel]

\* The stats after addCallLog was called for each of the tool calls ro.
RECURSIVE StatsAfter(_, _)
StatsAfter(prev, ro) ==
    IF ro = << >> THEN prev
    ELSE StatsAfter(addCallLogStats(prev, LogOf(Head(ro).args)), Tail(ro))

\* The tool-call loop of onmessage (lines 114-132) with onToolCall (part_000
\* lines 94-111) and addCallLog (Dashboard.tsx lines 27-30), for the
\* functionCalls `calls` of a message of session k.
ProcessToolCalls(k, calls) ==
    LET ro   == SelectSeq(calls, LAMBDA c : c.name = "report_outcome")
        last == ro[Len(ro)]
        reactions == [i \in 1 .. Len(ro) |->
                         [kind |-> "ack", seq |-> 0, id |-> ro[i].id, name |-> ro[i].name]]
    IN  /\ delivered' = [delivered EXCEPT
               ![k] = @ \o [i \in 1 .. Len(ro) |->
                               [args |-> ro[i].args, id |-> ro[i].id,
                                active |-> isActive, sess |-> sess[k],
                                logged |-> LogOf(ro[i].args).status]]]
        /\ assessment' = IF ro /= << >> THEN last.args ELSE assessment
        /\ status' = IF ro /= << >> THEN "finished" ELSE status
        /\ logs' = IF ro /= << >> THEN <<LogOf(last.args)>> \o capturedLogs[k] ELSE logs
        /\ stats' = StatsAfter(stats, ro)
        /\ timers' = timers + Len(ro)
        /\ timerOwners' = timerOwners \o [i \in 1 .. Len(ro) |-> k]
        /\ IF PromiseSettled(k)
           THEN /\ acks' = [acks EXCEPT ![k] = @ \o RunAcks(k, reactions)]
                /\ UNCHANGED thenQueue
           ELSE /\ thenQueue' = [thenQueue EXCEPT ![k] = @ \o reactions]
                /\ UNCHANGED acks

\* The functionCalls of message n of session k, with their identifiers.
WithIds(k, n, calls) ==
    [i \in 1 .. Len(calls) |->
        [name |-> calls[i].name, args |-> calls[i].args, id |-> <<k, n, i>>]]

\* onmessage of session k: lines 100-133.  With inline audio the handler stops
\* at `await decodeAudioData` (line 104); without, it goes on to the tool calls.
RemoteMessage(k, audio, calls) ==
    /\ program = "browser"
    /\ ~AwaitingResolve
    /\ sess[k] = "open"
    /\ TotalLocalMsgs < quota.msgs
    /\ emitted' = [emitted EXCEPT ![k] = Append(@, [audio |-> audio, calls |-> calls])]
    /\ LET n == Len(emitted[k]) + 1
       IN  IF audio
           THEN /\ decoding' = decoding \cup
                      {[call |-> k, no |-> n, calls |-> WithIds(k, n, calls)]}
                /\ UNCHANGED <<delivered, assessment, status, logs, timers,
                               acks, thenQueue, timerOwners, stats>>
           ELSE /\ ProcessToolCalls(k, WithIds(k, n, calls))
                /\ UNCHANGED decoding
    /\ UNCHANGED <<svcVars, callPc, sess, promise, procCtx, procConnected,
                   capturedLogs, sessCloseCalls, trackStops, disconnects, ctxCloses,
                   micArrivals, submitted, played, isConnected, error,
                   nextStartTimeRef, currentTime, scheduled,
                   lastOp, codecVars, envVars, telVars>>

\* Mutant of StartTime: the buffer starts now, whatever is still queued.
StartTime_Now(cursor, now) == now

\* Math.max(nextStartTimeRef.current, currentTime): part_000 line 89.
StartTime(cursor, now) == IF cursor > now THEN cursor ELSE now

\* onAudioData for a buffer of the given duration: part_000 lines 78-93.
OnAudioData(duration) ==
    LET startTime == StartTime(nextStartTimeRef, currentTime)
    IN  /\ scheduled' = Append(scheduled,
                               [kind |-> "buffer", start |-> startTime,
                                duration |-> duration, now |-> currentTime,
                                cursor |-> nextStartTimeRef])
        /\ nextStartTimeRef' = startTime + duration

\* decodeAudioData resolves for a suspended handler: lines 104-132, with
\* onAudioData (part_000 lines 78-93).
DecodeDone(d) ==
    /\ program = "browser"
    /\ ~AwaitingResolve
    /\ d \in decoding
    /\ decoding' = decoding \ {d}
    /\ played' = Append(played, <<d.call, d.no>>)
    /\ \E duration \in BufferDurations : OnAudioData(duration)
    /\ ProcessToolCalls(d.call, d.calls)
    /\ UNCHANGED <<svcVars, callPc, sess, promise, procCtx, procConnected,
                   capturedLogs, sessCloseCalls, trackStops, disconnects, ctxCloses,
                   micArrivals, submitted, emitted, isConnected, error,
                   currentTime, lastOp, codecVars, envVars, telVars>>

\* handleHangUp (part_000 lines 120-126) with stopSession (lines 156-167).
HangUp ==
    /\ sessCloseCalls' = IF session /= NoId
                         THEN [sessCloseCalls EXCEPT ![session] = @ + 1]
                         ELSE sessCloseCalls
    /\ sess' = IF session /= NoId /\ sess[session] = "open"
               THEN [sess EXCEPT ![session] = "closing"]
               ELSE sess
    /\ Cleanup
    /\ isConnected' = FALSE
    /\ status' = "idle"
    /\ lastOp' = "stop"
    /\ nextStartTimeRef' = 0
    /\ scheduled' = IF scheduled /= << >> /\ scheduled[Len(scheduled)].kind = "buffer"
                    THEN Append(scheduled,
                                [kind |-> "reset", start |-> 0, duration |-> 0,
                                 now |-> currentTime, cursor |-> nextStartTimeRef])
                    ELSE scheduled

\* The user clicks "End Call" (rendered while isConnected).
UserHangUp ==
    /\ program = "browser"
    /\ ~AwaitingResolve
    /\ isConnected
    /\ HangUp
    /\ UNCHANGED <<NotCleaned, callPc, promise, thenQueue, capturedLogs, decoding,
                   micArrivals, submitted, acks, delivered, played, emitted,
                   assessment, error, timers, logs, currentTime, timerOwners,
                   stats, codecVars, envVars, telVars>>

\* A timer set by onToolCall fires: setTimeout(() => handleHangUp(), 4000).
TimerFire ==
    /\ program = "browser"
    /\ ~AwaitingResolve
    /\ timers > 0
    /\ timers' = timers - 1
    /\ timerOwners' = Tail(timerOwners)
    /\ HangUp
    /\ UNCHANGED <<NotCleaned, callPc, promise, thenQueue, capturedLogs, decoding,
                   micArrivals, submitted, acks, delivered, played, emitted,
                   assessment, error, logs, currentTime, stats,
                   codecVars, envVars, telVars>>

\* onclose of session k (lines 134-138) with onDisconnect (part_000 lines 69-72).
RemoteClose(k) ==
    /\ program = "browser"
    /\ ~AwaitingResolve
    /\ sess[k] \in {"open", "closing", "errored"}
    /\ sess' = [sess EXCEPT ![k] = "closed"]
    /\ isConnected' = FALSE
    /\ status' = "idle"
    /\ Cleanup
    /\ UNCHANGED <<NotCleaned, callPc, promise, thenQueue, capturedLogs, decoding,
                   sessCloseCalls, micArrivals, submitted, acks, delivered, played,
                   emitted, assessment, error, timers, logs,
                   lastOp, simVars, codecVars, envVars, telVars>>

\* Mutant of RemoteError: onerror reports the error and releases nothing.
RemoteError_NoCleanup(k) ==
    /\ program = "browser"
    /\ ~AwaitingResolve
    /\ sess[k] = "open"
    /\ sess' = [sess EXCEPT ![k] = "errored"]
    /\ error' = "Connection error"
    /\ isConnected' = FALSE
    /\ status' = "idle"
    /\ UNCHANGED Cleaned
    /\ UNCHANGED <<NotCleaned, callPc, promise, thenQueue, capturedLogs, decoding,
                   sessCloseCalls, micArrivals, submitted, acks, delivered, played,
                   emitted, assessment, timers, logs,
                   lastOp, simVars, codecVars, envVars, telVars>>

\* onerror of session k (lines 139-143) with onError (part_000 lines 73-77).
RemoteError(k) ==
    /\ program = "browser"
    /\ ~AwaitingResolve
    /\ sess[k] = "open"
    /\ sess' = [sess EXCEPT ![k] = "errored"]
    /\ error' = "Connection error"
    /\ isConnected' = FALSE
    /\ status' = "idle"
    /\ Cleanup
    /\ UNCHANGED <<NotCleaned, callPc, promise, thenQueue, capturedLogs, decoding,
                   sessCloseCalls, micArrivals, submitted, acks, delivered, played,
                   emitted, assessment, timers, logs,
                   lastOp, simVars, codecVars, envVars, telVars>>

\* The output context's clock advances (AudioContext.currentTime, read at
\* part_000 line 87).
ClockTick ==
    /\ program = "browser"
    /\ ~AwaitingResolve
    /\ currentTime < MaxClock
    /\ currentTime' = currentTime + 1
    /\ UNCHANGED <<svcVars, callVars, histVars, uiVars, lastOp, nextStartTimeRef,
                   scheduled, timerOwners, stats, codecVars, envVars, telVars>>

LocalNext ==
    \/ \E k \in Calls :
        \/ HandleStartCall(k)
        \/ \E suspended \in BOOLEAN : GetUserMediaResolve(k, suspended)
        \/ GetUserMediaReject(k)
        \/ ResumeSettle(k)
        \/ RemoteOpen(k)
        \/ HandshakeResolve(k)
        \/ HandshakeReject(k)
        \/ AudioProcess(k)
        \/ \E m \in RemoteMessages : RemoteMessage(k, m.audio, m.calls)
        \/ RemoteClose(k)
        \/ RemoteError(k)
    \/ \E d \in decoding : DecodeDone(d)
    \/ UserHangUp
    \/ TimerFire

(***************************************************************************)
(* Specifications.  Spec runs one of the two bridges: the telephony server *)
(* with one caller, or the browser application.                            *)
(***************************************************************************)
NoCodec ==
    /\ codecOp = "none"
    /\ codecIn = << >>
    /\ codecOut = << >>
    /\ codecBack = << >>

\* A run with one startSession call (one caller on the telephony side).
OneCall == [starts |-> 1, media |-> MaxMedia, msgs |-> MaxRemoteMsgs]

TelInit ==
    /\ program = "server"
    /\ callers = {"A"}
    /\ quota = OneCall
    /\ NoCodec
    /\ TelIdle
    /\ LocalIdle

LocalInit ==
    /\ program = "browser"
    /\ callers = {}
    /\ quota = OneCall
    /\ NoCodec
    /\ TelIdle
    /\ LocalIdle

Init == TelInit \/ LocalInit

Next == TelNext \/ LocalNext

Spec == Init /\ [][Next]_vars

\* SpecRestart: as Spec, but the browser application sees several clicks on
\* "Simulate Incoming Call" (a call started after, or while, an earlier one),
\* with one audio chunk and one remote message.
SeveralCalls == [starts |-> MaxStarts, media |-> 1, msgs |-> 1]

RestartInit ==
    /\ program = "browser"
    /\ callers = {}
    /\ quota = SeveralCalls
    /\ NoCodec
    /\ TelIdle
    /\ LocalIdle

SpecRestart == (TelInit \/ RestartInit) /\ [][Next]_vars

\* SpecPlayback: the browser application with one call, while the clock of
\* the output context advances.
PlaybackCall == [starts |-> 1, media |-> 1, msgs |-> MaxRemoteMsgs]

PlaybackInit ==
    /\ program = "browser"
    /\ callers = {}
    /\ quota = PlaybackCall
    /\ NoCodec
    /\ TelIdle
    /\ LocalIdle

PlaybackNext == LocalNext \/ ClockTick

SpecPlayback == PlaybackInit /\ [][PlaybackNext]_vars

\* SpecCallers: the telephony server with every caller of Conns connected
\* concurrently, one media event and one remote message.
CallersInit ==
    /\ program = "server"
    /\ callers = Conns
    /\ quota = [starts |-> 0, media |-> 1, msgs |-> 1]
    /\ NoCodec
    /\ TelIdle
    /\ LocalIdle

SpecCallers == CallersInit /\ [][TelNext]_vars

(***************************************************************************)
(* SpecCodec: the codec functions applied to frames drawn from bounded     *)
(* sets.  Frames of one element range over every byte and every 16-bit     *)
(* sample; longer frames range over a few representative values.           *)
(***************************************************************************)
SampleVals == {Int16Min, 0 - 1000, 0, 1, 300, Int16Max}

ByteVals == {0, 127, 128, 255}

RECURSIVE SeqsUpTo(_, _)
SeqsUpTo(S, n) ==
    IF n = 0 THEN {<< >>}
    ELSE LET shorter == SeqsUpTo(S, n - 1)
         IN  shorter \cup {Append(s, x) : s \in {t \in shorter : Len(t) = n - 1}, x \in S}

ByteFrames == {<<b>> : b \in Bytes} \cup SeqsUpTo(ByteVals, MaxFrameLen)

PcmFrames == {<<s>> : s \in Int16} \cup SeqsUpTo(SampleVals, MaxFrameLen)

\* Longer frames whose samples all differ (a ramp), for the resamplers.
RampFrames == {[i \in 1 .. n |-> i * 100] : n \in 0 .. (3 * MaxFrameLen)}

\* Each sample of a frame three times: a frame held at three times the rate.
Tripled(f) == [k \in 1 .. (3 * Len(f)) |-> f[((k - 1) \div 3) + 1]]

IsByteFrame(f) == \A i \in 1 .. Len(f) : f[i] \in Bytes

CodecInit ==
    /\ program = "codec"
    /\ callers = {}
    /\ quota = [starts |-> 0, media |-> 0, msgs |-> 0]
    /\ codecOp = "none"
    /\ codecIn \in ByteFrames \cup PcmFrames \cup RampFrames
    /\ codecOut = << >>
    /\ codecBack = << >>
    /\ TelIdle
    /\ LocalIdle

DecodeOp ==
    /\ program = "codec"
    /\ codecOp = "none"
    /\ IsByteFrame(codecIn)
    /\ codecOp' = "decode"
    /\ codecOut' = decodeMulaw(codecIn)
    /\ UNCHANGED <<codecIn, codecBack, envVars, telVars, localVars>>

EncodeOp ==
    /\ program = "codec"
    /\ codecOp = "none"
    /\ codecOp' = "encode"
    /\ codecOut' = encodeMulaw(codecIn)
    /\ UNCHANGED <<codecIn, codecBack, envVars, telVars, localVars>>

\* The far end of the round trip: the bytes of encodeMulaw given to decodeMulaw.
DecodeBackOp ==
    /\ program = "codec"
    /\ codecOp = "encode"
    /\ codecOp' = "roundtrip"
    /\ codecBack' = decodeMulaw(codecOut)
    /\ UNCHANGED <<codecIn, codecOut, envVars, telVars, localVars>>

UpsampleOp ==
    /\ program = "codec"
    /\ codecOp = "none"
    /\ codecOp' = "up"
    /\ codecOut' = resample8kTo16k(codecIn)
    /\ UNCHANGED <<codecIn, codecBack, envVars, telVars, localVars>>

DownsampleOp ==
    /\ program = "codec"
    /\ codecOp = "none"
    /\ codecOp' = "down"
    /\ codecOut' = resample24kTo8k(codecIn)
    /\ UNCHANGED <<codecIn, codecBack, envVars, telVars, localVars>>

\* resample24kTo8k applied to a frame whose samples come in threes.
DownsampleTripledOp ==
    /\ program = "codec"
    /\ codecOp = "none"
    /\ codecOp' = "tripled-down"
    /\ codecOut' = resample24kTo8k(Tripled(codecIn))
    /\ UNCHANGED <<codecIn, codecBack, envVars, telVars, localVars>>

CodecNext ==
    \/ DecodeOp
    \/ EncodeOp
    \/ DecodeBackOp
    \/ UpsampleOp
    \/ DownsampleOp
    \/ DownsampleTripledOp

SpecCodec == CodecInit /\ [][CodecNext]_vars

(***************************************************************************)
(* Claims on the two bridges (checked under Spec).                         *)
(***************************************************************************)

\* C1: pre-handshake audio: on both paths no inbound audio frame is submitted
\* to the remote session before its handshake has resolved; chunks that arrive
\* before that yield no forwarded frame.
C1_NoAudioBeforeHandshake ==
    /\ \A c \in Conns :
          telPc[c] /= "ready" => forwarded[c] = << >>
    /\ \A k \in Calls :
          /\ promise[k] /= "resolved" => submitted[k] = << >>
          /\ \A i \in 1 .. Len(submitted[k]) : submitted[k][i].settled

\* C1 witness: three media events arrived while the handshake was pending,
\* the handshake has resolved since, and nothing was forwarded.
C1_Witness ==
    /\ telPc["A"] = "ready"
    /\ Len(arrivals["A"]) = 3
    /\ \A i \in 1 .. 3 : ~arrivals["A"][i].accepted
    /\ forwarded["A"] = << >>

\* C2: idempotent teardown: whatever the close triggers, each resource is
\* released once: the remote session handle is closed once, the microphone
\* tracks are stopped once, source and processor are disconnected once, the
\* input context is closed once.
C2_ReleasedOnce ==
    /\ \A c \in Conns : closeCalls[c] <= 1
    /\ \A k \in Calls :
          /\ sessCloseCalls[k] <= 1
          /\ trackStops[k] <= 1
          /\ disconnects[k] <= 1
          /\ ctxCloses[k] <= 1

\* C3: verdict exactly-once: of two report_outcome invocations a session
\* receives (in one message or in two), onToolCall sees the first only.
C3_VerdictOnce ==
    \A k \in Calls : Len(delivered[k]) <= 1

\* C4: malformed verdict: a report_outcome payload whose verdict is missing
\* (or is neither 'scam' nor 'safe') is not delivered to onToolCall.
C4_MalformedNotDelivered ==
    \A k \in Calls : \A i \in 1 .. Len(delivered[k]) :
        delivered[k][i].args.verdict \in {"scam", "safe"}

\* The positions of the accepted entries of a history of arrivals, in order.
AcceptedIdx(flags) ==
    SelectSeq([i \in 1 .. Len(flags) |-> i], LAMBDA i : flags[i])

\* C5: inbound ordering: the frames submitted to the remote session are the
\* chunks that arrived at the established session, one frame per chunk, in
\* their order of arrival, on both paths (on the local path, together with
\* the frames that still wait for the handshake).
C5_InboundOrder ==
    /\ \A c \in Conns :
          LET acc == AcceptedIdx([i \in 1 .. Len(arrivals[c]) |-> arrivals[c][i].accepted])
          IN  /\ Len(forwarded[c]) = Len(acc)
              /\ \A j \in 1 .. Len(acc) :
                    /\ forwarded[c][j].seq = acc[j]
                    /\ forwarded[c][j].data = InboundFrame(arrivals[c][acc[j]].payload)
    /\ \A k \in Calls :
          LET acc    == AcceptedIdx(micArrivals[k])
              queued == SelectSeq(thenQueue[k], LAMBDA r : r.kind = "audio")
              seqs   == [j \in 1 .. Len(submitted[k]) |-> submitted[k][j].seq]
                        \o [j \in 1 .. Len(queued) |-> queued[j].seq]
          IN  promise[k] /= "rejected" => seqs = acc

\* C5 witness: chunks A and B arrived while the handshake of the local
\* session was pending and were submitted when it resolved, chunk C arrived
\* afterwards and was submitted at once: three frames, in the order A, B, C.
C5_Witness ==
    /\ promise[1] = "resolved"
    /\ micArrivals[1] = <<TRUE, TRUE, TRUE>>
    /\ [i \in 1 .. Len(submitted[1]) |-> submitted[1][i].seq] = <<1, 2, 3>>
    /\ submitted[1][1].deferred
    /\ submitted[1][2].deferred
    /\ ~submitted[1][3].deferred

\* C6: scam-call scenario: a well-formed report_outcome call reaches
\* onToolCall unchanged, the status becomes 'finished' with the teardown
\* scheduled, and Finished precedes Closed: the verdict of a session is
\* delivered while the session is still active, not after it was closed.
C6_FinishedThenClosed ==
    /\ \A k \in Calls : \A i \in 1 .. Len(delivered[k]) :
          LET d == delivered[k][i]
          IN  d.args.verdict \in {"scam", "safe"} =>
                 /\ d.args = emitted[k][d.id[2]].calls[d.id[3]].args
                 /\ d.active
    /\ status = "finished" => timers > 0

\* C11: telephony path, close from any state: once the socket of a connection
\* has closed, whatever the state it closed in (the remote handshake still
\* pending included), and the connection handler has finished connecting, the
\* remote session of that connection is closed: no remote session stays open
\* for a caller who has disconnected.
C11_ClosedAfterDisconnect ==
    \A c \in Conns :
        (wsState[c] = "closed" /\ telPc[c] \in {"ready", "failed"})
            => gemState[c] = "closed"

\* C13: telephony path, mid-session remote failure: when the remote session
\* has closed or failed by itself during a call, the telephony socket of that
\* call is closed, and no media frame is forwarded to the remote session
\* afterwards.
C13_RemoteFailureClosesCall ==
    \A c \in Conns :
        /\ (telPc[c] = "ready" /\ gemState[c] = "closed" /\ closeCalls[c] = 0)
               => wsState[c] = "closed"
        /\ closeCalls[c] = 0 =>
               \A i \in 1 .. Len(forwarded[c]) : forwarded[c][i].open

\* C15: telephony path, verdict teardown: once a verdict tool call has been
\* received from the remote session, the telephony socket and the remote
\* session are closed (torn down within the handling of that message), and
\* no audio frame is sent on the socket afterwards.
C15_VerdictTearsDown ==
    \A c \in Conns :
        toolCalls[c] > 0 =>
            /\ wsState[c] = "closed"
            /\ gemState[c] = "closed"

\* C17: stream identifier tagging: every outbound media frame sent on the
\* socket of a connection carries the stream identifier of that connection's
\* start event, never the empty string nor another connection's identifier.
C17_FramesTagged ==
    \A c \in Conns : \A i \in 1 .. Len(wsOut[c]) :
        wsOut[c][i].streamSid = SidOf(c)

\* C18: transport protocol errors: a malformed envelope on the telephony
\* socket is dropped: the handler does not raise and the process stays up.
C18_MalformedDropped == ~crashed

\* C12: local path, explicit stop from any state: after stopSession was
\* invoked, in whatever state (microphone request or remote handshake still
\* pending included), and until startSession is invoked again, the service is
\* not active, onConnect is not delivered and no remote session is open.
C12_StopStaysClosed ==
    lastOp = "stop" =>
        /\ ~isActive
        /\ ~isConnected
        /\ \A k \in Calls : sess[k] /= "open"

ReportedIds(k) ==
    UNION { { <<k, n, i>> :
                i \in {j \in 1 .. Len(emitted[k][n].calls) :
                          emitted[k][n].calls[j].name = "report_outcome"} } :
            n \in {m \in 1 .. Len(emitted[k]) :
                      \A d \in decoding : ~(d.call = k /\ d.no = m)} }

\* C16: verdict acknowledgment: each report_outcome invocation received gets
\* one tool response, which names the invocation's identifier and the
\* function, is sent after the verdict was delivered and never before the
\* handshake has resolved; calls of other functions are neither delivered
\* nor acknowledged.
C16_AckPerVerdict ==
    \A k \in Calls :
        LET queued  == SelectSeq(thenQueue[k], LAMBDA r : r.kind = "ack")
            ackIds  == [i \in 1 .. Len(acks[k]) |-> acks[k][i].id]
                       \o [i \in 1 .. Len(queued) |-> queued[i].id]
            delIds  == [i \in 1 .. Len(delivered[k]) |-> delivered[k][i].id]
        IN  /\ ackIds = delIds
            /\ {delIds[i] : i \in 1 .. Len(delIds)} = ReportedIds(k)
            /\ Len(delIds) = Cardinality(ReportedIds(k))
            /\ \A i \in 1 .. Len(acks[k]) : acks[k][i].name = "report_outcome"
            /\ acks[k] /= << >> => promise[k] = "resolved"

\* C16 witness: the session has emitted a call of another function and a
\* report_outcome call; the latter alone was delivered and acknowledged.
C16_Witness ==
    /\ Len(emitted[1]) = 2
    /\ decoding = {}
    /\ \E n \in 1 .. 2 : emitted[1][n].calls = <<OtherCall>>
    /\ Len(delivered[1]) = 1
    /\ Len(acks[1]) = 1
    /\ acks[1][1].id = delivered[1][1].id

C20_OneRemoteSession ==
    Cardinality({k \in Calls : sess[k] \in {"connecting", "open"}}) <= 1

(***************************************************************************)
(* Reference for the codec claims: the 8-bit logarithmic (mu-law) encoder  *)
(* of ITU-T G.711 in its usual table-free form: clip the magnitude, add    *)
(* the bias 0x84, the exponent is the position of the highest set bit      *)
(* above bit 7, the mantissa the four bits below it, and the byte is sent  *)
(* complemented.                                                           *)
(***************************************************************************)
Abs(v) == IF v < 0 THEN 0 - v ELSE v

\* The magnitude is clipped at 32635 so that the biased value fits 15 bits.
StdBiased(s) == (IF Abs(s) > 32635 THEN 32635 ELSE Abs(s)) + 132

StdExponent(s) ==
    CHOOSE e \in 0 .. 7 :
        /\ StdBiased(s) >= 2 ^ (e + 7)
        /\ StdBiased(s) < 2 ^ (e + 8)

StdMulawByte(s) ==
    LET sign     == IF s < 0 THEN 128 ELSE 0
        e        == StdExponent(s)
        mantissa == (StdBiased(s) \div (2 ^ (e + 3))) % 16
    IN  255 - (sign + (e * 16) + mantissa)

\* The reconstruction step of the band a sample falls in: adjacent mantissa
\* codes of exponent e decode 2^(e+3) apart.
QuantStep(s) == 2 ^ (StdExponent(s) + 3)

(***************************************************************************)
(* Claims on the codec layer (checked under SpecCodec).                    *)
(***************************************************************************)

\* C7: codec round trip: for every 16-bit linear sample x,
\* decodeMulaw(encodeMulaw(x)) differs from x by at most one quantization
\* step of the exponent band of x.
C7_RoundTripWithinStep ==
    codecOp = "roundtrip" =>
        \A i \in 1 .. Len(codecIn) :
            Abs(codecBack[i] - codecIn[i]) <= QuantStep(codecIn[i])

\* C8: encoder conformance: for every 16-bit linear sample, encodeMulaw
\* produces exactly the byte the standard mu-law encoder produces.
C8_EncoderIsStandard ==
    codecOp = "encode" /\ (\A i \in 1 .. Len(codecIn) : codecIn[i] \in Int16) =>
        \A i \in 1 .. Len(codecIn) : codecOut[i] = StdMulawByte(codecIn[i])

\* C9: codec table completeness: decodeMulaw is defined for each of the 256
\* byte values, every table entry is the signed 16-bit value the expansion
\* formula gives (nothing is lost by the store into the Int16Array), and the
\* output frame is as long as the input frame.
C9_DecodeTotal ==
    codecOp = "decode" =>
        /\ Len(codecOut) = Len(codecIn)
        /\ \A i \in 1 .. Len(codecIn) :
              /\ codecIn[i] \in DOMAIN MU_LAW_TABLE
              /\ MuLawSample(codecIn[i]) \in Int16
              /\ codecOut[i] = MuLawSample(codecIn[i])

\* C9 witness: the byte with the largest magnitude (negative sign, exponent
\* 7, mantissa 15) has been decoded.
C9_Witness ==
    /\ codecOp = "decode"
    /\ codecIn = <<255>>
    /\ codecOut = <<0 - 32124>>

\* C10: resample length law: resample8kTo16k(input) has length
\* 2 * len(input) and resample24kTo8k(input) has length floor(len(input)/3),
\* empty inputs and lengths that are no multiple of 3 included.
C10_ResampleLengths ==
    /\ codecOp = "up" => Len(codecOut) = 2 * Len(codecIn)
    /\ codecOp = "down" => Len(codecOut) = Len(codecIn) \div 3

\* C10 witness: a frame whose length is no multiple of 3 has been decimated
\* to a non-empty frame.
C10_Witness ==
    /\ codecOp = "down"
    /\ Len(codecIn) % 3 /= 0
    /\ Len(codecOut) >= 1

\* What belongs to connection c: its socket, its handler's locals, its
\* remote session and what was relayed for it.
OfConn(c) ==
    <<wsState[c], twPhase[c], telPc[c], streamSid[c], geminiSession[c],
      gemState[c], arrivals[c], forwarded[c], closeCalls[c], wsOut[c],
      gemMsgs[c], toolCalls[c], gemAudio[c]>>

PlayedOf(k) ==
    LET mine == SelectSeq(played, LAMBDA e : e[1] = k)
    IN  [i \in 1 .. Len(mine) |-> mine[i][2]]

\* C24: outbound ordering: the audio payloads of the remote session are
\* handed on in the order it delivered them: on the telephony path the
\* media frames on the socket follow the order of the messages; on the local
\* path onAudioData for an earlier message precedes that for a later one,
\* however long each buffer takes to decode.
C24_OutboundOrder ==
    /\ \A c \in Conns :
          [i \in 1 .. Len(wsOut[c]) |-> wsOut[c][i].payload]
              = [i \in 1 .. Len(gemAudio[c]) |->
                    encodeMulaw(resample24kTo8k(gemAudio[c][i]))]
    /\ \A k \in Calls :
          \A i, j \in 1 .. Len(PlayedOf(k)) :
              i < j => PlayedOf(k)[i] < PlayedOf(k)[j]

\* C26: telephony inbound pump, no batching: every media event that finds
\* the session handle set submits exactly one frame, within its handling:
\* 2n 16-bit samples for a payload of n bytes, tagged as 16000 Hz PCM; no
\* other event submits a frame, and frames are neither batched nor split.
C26_OneFramePerMedia ==
    /\ [](\A c \in Conns :
            LET acc == AcceptedIdx([i \in 1 .. Len(arrivals[c]) |->
                                       arrivals[c][i].handle /= NULL])
            IN  /\ Len(forwarded[c]) = Len(acc)
                /\ \A j \in 1 .. Len(acc) :
                       /\ forwarded[c][j].seq = acc[j]
                       /\ Len(forwarded[c][j].data)
                              = 2 * Len(arrivals[c][acc[j]].payload)
                       /\ \A s \in 1 .. Len(forwarded[c][j].data) :
                              forwarded[c][j].data[s] \in Int16
                       /\ forwarded[c][j].mimeType = "audio/pcm;rate=16000")
    /\ [][\A c \in Conns :
            forwarded'[c] /= forwarded[c] =>
                /\ Len(arrivals'[c]) = Len(arrivals[c]) + 1
                /\ Len(forwarded'[c]) = Len(forwarded[c]) + 1
                /\ twPhase'[c] = twPhase[c]]_vars

\* C26 witness: after start, two media events of two bytes and one byte, and
\* stop: two frames, of four samples and of two.
C26_Witness ==
    /\ twPhase["A"] = "stopped"
    /\ Len(arrivals["A"]) = 2
    /\ arrivals["A"][1].payload = <<255, 127>>
    /\ arrivals["A"][2].payload = <<0>>
    /\ Len(forwarded["A"]) = 2
    /\ Len(forwarded["A"][1].data) = 4
    /\ Len(forwarded["A"][2].data) = 2

C29_NoAudioAfterClose ==
    /\ \A c \in Conns : \A i \in 1 .. Len(forwarded[c]) :
          ~forwarded[c][i].closedBefore
    /\ \A k \in Calls : \A i \in 1 .. Len(submitted[k]) :
          submitted[k][i].open

\* C21: playback scheduler: every buffer handed to onAudioData starts at
\* max(cursor, clock) and moves the cursor to start + duration; so no buffer
\* is scheduled in the past, a buffer starts at or after the end of the one
\* scheduled before it in the session, exactly at that end when it arrives
\* before it, and the cursor never decreases within a session (it goes back
\* to zero only when handleHangUp resets it).
C21_PlaybackSchedule ==
    /\ [](\A i \in 1 .. Len(scheduled) :
            scheduled[i].kind = "buffer" =>
                /\ scheduled[i].start >= scheduled[i].now
                /\ scheduled[i].start >= scheduled[i].cursor
                /\ scheduled[i].start \in {scheduled[i].now, scheduled[i].cursor}
                /\ i = Len(scheduled) =>
                       nextStartTimeRef = scheduled[i].start + scheduled[i].duration
                /\ (i > 1 /\ scheduled[i - 1].kind = "buffer") =>
                       LET prevEnd == scheduled[i - 1].start + scheduled[i - 1].duration
                       IN  /\ scheduled[i].start >= prevEnd
                           /\ scheduled[i].now <= prevEnd =>
                                  scheduled[i].start = prevEnd)
    /\ [][\/ nextStartTimeRef' >= nextStartTimeRef
          \/ nextStartTimeRef' = 0 /\ lastOp' = "stop"]_vars

\* C21 witness: a buffer of two ticks arrived at tick 1, the next one at tick
\* 2, before the first has ended, and was scheduled at its end, tick 3.
C21_Witness ==
    /\ Len(scheduled) = 2
    /\ scheduled[1] = [kind |-> "buffer", start |-> 1, duration |-> 2, now |-> 1,
                       cursor |-> 0]
    /\ scheduled[2].kind = "buffer"
    /\ scheduled[2].now = 2
    /\ scheduled[2].start = 3
    /\ nextStartTimeRef = 3 + scheduled[2].duration

\* C22: playback cursor reset: whichever way a session ends (user hang-up,
\* delayed hang-up, remote close, error), the step that ends it leaves the
\* cursor at zero.
C22_CursorResetOnEnd ==
    [][(isConnected /\ ~isConnected') => nextStartTimeRef' = 0]_vars

\* C28: the delayed hang-up tears down only the session whose verdict set
\* it: when the timer of call k fires after k's session has ended and the
\* service holds the session of a later call, that session is not closed,
\* its microphone is not released and the interface stays connected.
C28_TimerStopsOwnSession ==
    [][(/\ timers' < timers
        /\ sess[Head(timerOwners)] \in {"closing", "closed", "errored"}
        /\ session > Head(timerOwners)
        /\ stream = session)
        => /\ sess'[session] = sess[session]
           /\ sessCloseCalls'[session] = sessCloseCalls[session]
           /\ trackStops'[session] = trackStops[session]
           /\ isActive' = isActive
           /\ isConnected' = isConnected]_vars

\* How many of the verdicts delivered so far have the verdict value v.
DeliveredWith(v) ==
    SumOver([k \in Calls |->
                Len(SelectSeq(delivered[k], LAMBDA d : d.args.verdict = v))], Calls)

\* C30: verdict classification in the call log: a delivered verdict is
\* logged LEGITIMATE only when its verdict is 'safe' and SCAM_DETECTED only
\* when it is 'scam'; callsForwarded counts the 'safe' verdicts alone.
C30_VerdictClassified ==
    /\ \A k \in Calls : \A i \in 1 .. Len(delivered[k]) :
          /\ delivered[k][i].logged = "LEGITIMATE" =>
                 delivered[k][i].args.verdict = "safe"
          /\ delivered[k][i].logged = "SCAM_DETECTED" =>
                 delivered[k][i].args.verdict = "scam"
    /\ stats.callsForwarded = InitialStats.callsForwarded + DeliveredWith("safe")
    /\ stats.scamsBlocked = InitialStats.scamsBlocked + DeliveredWith("scam")

\* C31: no playback after session end: once handleHangUp has closed the
\* session of a call and reset the cursor, no buffer of that call is handed
\* to onAudioData and scheduled, so the cursor stays where the reset left it.
C31_NoPlaybackAfterHangUp ==
    [][played' /= played =>
          sessCloseCalls[played'[Len(played')][1]] = 0]_vars

\* Stream k and context k were acquired by startSession call k.
Acquired(k) == callPc[k] = "resume" \/ sess[k] /= "none"

\* C32: no leaked capture resources: a microphone stream that was acquired
\* and whose tracks were never stopped is the one the service references,
\* and so is an input context that was acquired and never closed.
C32_NoLeakedCapture ==
    \A k \in Calls :
        Acquired(k) =>
            /\ trackStops[k] = 0 => stream = k
            /\ ctxCloses[k] = 0 => inputAudioContext = k

\* The number of verdicts delivered so far.
DeliveredCount == SumOver([k \in Calls |-> Len(delivered[k])], Calls)

\* C33: call-log accounting: the log list holds one new entry per delivered
\* verdict in front of the previous entries, totalCalls grew by the number
\* of delivered verdicts, each of them incremented exactly one of
\* scamsBlocked and callsForwarded, and avgThreatLevel is unchanged.
C33_LogAccounting ==
    /\ Len(logs) = Len(MOCK_INITIAL_LOGS) + DeliveredCount
    /\ \A i \in 1 .. Len(MOCK_INITIAL_LOGS) :
          logs[Len(logs) - Len(MOCK_INITIAL_LOGS) + i] = MOCK_INITIAL_LOGS[i]
    /\ stats.totalCalls = InitialStats.totalCalls + DeliveredCount
    /\ stats.scamsBlocked + stats.callsForwarded
          = InitialStats.scamsBlocked + InitialStats.callsForwarded + DeliveredCount
    /\ stats.avgThreatLevel = InitialStats.avgThreatLevel

====
